---- MODULE Spec2Model ----
(***************************************************************************)
(* KernFeatureWriter of ufo2ft (Lib/ufo2ft/kernFeatureWriter.py): the      *)
(* kerning-rule classification and conflict-resolution pass behind         *)
(* KernFeatureWriter.write.                                                *)
(*                                                                         *)
(* Strings (glyph names, group names, class names, emitted text) are       *)
(* sequences of one-character strings, so that the regular-expression      *)
(* tests, the character stripping of _makeFeaClassName, the "[a b]" lists  *)
(* of _liststr and the formatting of the emitter are computed, not         *)
(* assumed.  Python dictionaries are functions; where the code iterates a  *)
(* dictionary without sorting it, the visiting order is a permutation      *)
(* chosen nondeterministically (the interpreter's hash order), and         *)
(* .items() is the list snapshot of the Python 2 interpreters the module   *)
(* and its collaborators (robofab, feaTools) run on.                       *)
(***************************************************************************)
EXTENDS Integers, Sequences, FiniteSets, TLC

VARIABLES
    kerning,            \* font.kerning, which self.kerning aliases (line 34)
    groups,             \* font.groups (self.groups)
    featxt,             \* font.features.text, as the class definitions the parser reports
    leftFeaClasses, rightFeaClasses, leftUfoClasses, rightUfoClasses,
    glyphPairKerning, leftClassKerning, rightClassKerning, classPairKerning,
    output,             \* the text write returns
    pc,                 \* position inside write
    kerning0,           \* history: font.kerning when write was called
    renamed,            \* history: group name -> identifier given by _correctUfoClassNames
    pre,                \* history: the four buckets when _removeConflictingKerningRules starts
    derived             \* history: bucket, key before narrowing -> key after narrowing

vars == <<kerning, groups, featxt, leftFeaClasses, rightFeaClasses, leftUfoClasses,
          rightUfoClasses, glyphPairKerning, leftClassKerning, rightClassKerning,
          classPairKerning, output, pc, kerning0, renamed, pre, derived>>

----------------------------------------------------------------------------
(* Bounds of the model.                                                    *)

\* most entries in the font's kerning table
MaxKern == 3
\* most class definitions in the feature text plus groups in the font
MaxClasses == 2

----------------------------------------------------------------------------
(* Characters and strings.                                                 *)

\* the characters in use, in code-point order
AsciiOrder == <<" ", "-", ".", "0", "1", "2", "3", "4", "5", "6", "7", "8", "9", ";", "=",
                "@", "A", "B", "K", "L", "M", "R", "[", "]", "_",
                "a", "b", "c", "e", "f", "h", "i", "k", "l", "m", "n", "o", "p", "r", "s", "t", "u",
                "{", "}", "\n">>

Ord(c) == CHOOSE i \in 1..Len(AsciiOrder) : AsciiOrder[i] = c

Digits == <<"0", "1", "2", "3", "4", "5", "6", "7", "8", "9">>

UpperCase == {"A", "B", "C", "D", "E", "F", "G", "H", "I", "J", "K", "L", "M",
              "N", "O", "P", "Q", "R", "S", "T", "U", "V", "W", "X", "Y", "Z"}

LowerCase == {"a", "b", "c", "d", "e", "f", "g", "h", "i", "j", "k", "l", "m",
              "n", "o", "p", "q", "r", "s", "t", "u", "v", "w", "x", "y", "z"}

\* the characters r"[^A-Za-z0-9._]" does not match
LegalChars == UpperCase \cup LowerCase \cup {Digits[i] : i \in 1..10} \cup {".", "_"}

\* Python's order on str: by code point, a proper prefix first
StrLess(s, t) ==
    \E i \in 1..(Len(s) + 1) :
        /\ i <= Len(t)
        /\ \A j \in 1..(i - 1) : s[j] = t[j]
        /\ \/ i = Len(s) + 1
           \/ Ord(s[i]) < Ord(t[i])

\* Python's order on the (left, right) tuples that key a kerning dictionary
PairLess(p, q) == StrLess(p[1], q[1]) \/ (p[1] = q[1] /\ StrLess(p[2], q[2]))

RECURSIVE SortedStrs(_)
\* sorted(S) for a set of strings
SortedStrs(S) ==
    IF S = {} THEN <<>>
    ELSE LET m == CHOOSE x \in S : \A y \in S \ {x} : StrLess(x, y)
         IN  <<m>> \o SortedStrs(S \ {m})

RECURSIVE SortedPairs(_)
\* sorted(S) for a set of (left, right) tuples
SortedPairs(S) ==
    IF S = {} THEN <<>>
    ELSE LET m == CHOOSE x \in S : \A y \in S \ {x} : PairLess(x, y)
         IN  <<m>> \o SortedPairs(S \ {m})

\* every order a dictionary with the keys S can be iterated in
Orders(S) == {o \in [1..Cardinality(S) -> S] : \A i, j \in DOMAIN o : o[i] = o[j] => i = j}

RECURSIVE Join(_, _)
\* sep.join(parts)
Join(parts, sep) ==
    IF parts = <<>> THEN <<>>
    ELSE IF Len(parts) = 1 THEN parts[1]
    ELSE parts[1] \o sep \o Join(Tail(parts), sep)

RECURSIVE NatStr(_)
NatStr(n) == IF n < 10 THEN <<Digits[n + 1]>> ELSE NatStr(n \div 10) \o <<Digits[(n % 10) + 1]>>

\* "%d" % n
IntStr(n) == IF n < 0 THEN <<"-">> \o NatStr(0 - n) ELSE NatStr(n)

StartsWith(s, prefix) ==
    /\ Len(s) >= Len(prefix)
    /\ \A i \in 1..Len(prefix) : s[i] = prefix[i]

\* d[k] = v and del d[k] on a dictionary
Put(d, k, v) == [x \in (DOMAIN d) \cup {k} |-> IF x = k THEN v ELSE d[x]]
Del(d, k) == [x \in (DOMAIN d) \ {k} |-> d[x]]
EmptyDict == [x \in {} |-> 0]

----------------------------------------------------------------------------
(* The class-name conventions (class attributes, lines 28-31).             *)

\* r"^public\.kern1\.(.+)" and r"^public\.kern2\.(.+)", without the group
leftUfoGroupRe == <<"p", "u", "b", "l", "i", "c", ".", "k", "e", "r", "n", "1", ".">>
rightUfoGroupRe == <<"p", "u", "b", "l", "i", "c", ".", "k", "e", "r", "n", "2", ".">>
\* r"@MMK_L_(.+)" and r"@MMK_R_(.+)", without the group
leftFeaClassRe == <<"@", "M", "M", "K", "_", "L", "_">>
rightFeaClassRe == <<"@", "M", "M", "K", "_", "R", "_">>

\* re.match(nameRe, name) is not None: the literal prefix, then (.+)
IsClassName(nameRe, name) == StartsWith(name, nameRe) /\ Len(name) > Len(nameRe)

\* "[%s]" % " ".join(glyphs)
Liststr(glyphs) == <<"[">> \o Join(glyphs, <<" ">>) \o <<"]">>

\* re.sub(r"[^A-Za-z0-9._]", r"", name)
StripIllegal(name) == SelectSeq(name, LAMBDA c : c \in LegalChars)

RECURSIVE FirstFree(_, _, _)
\* the while loop of _makeFeaClassName, entered with the name taken
FirstFree(origName, i, existingClassNames) ==
    LET name == origName \o <<"_">> \o IntStr(i)
    IN  IF name \in existingClassNames
        THEN FirstFree(origName, i + 1, existingClassNames)
        ELSE name

MakeFeaClassName(name, existingClassNames) ==
    LET origName == <<"@">> \o StripIllegal(name)
    IN  IF origName \in existingClassNames
        THEN FirstFree(origName, 1, existingClassNames)
        ELSE origName

\* the keys of kerning whose side index (1 left, 2 right) is glyphName
GetGlyphKern(kern, glyphName, index) == {k \in DOMAIN kern : k[index] = glyphName}

----------------------------------------------------------------------------
(* The fonts the model runs write on.                                      *)

Glyphs == {<<"A">>, <<"B">>}

\* group names of a font: two left kerning groups whose corrected names
\* collide, a right kerning group, and a group that is no kerning group
GroupNames == {leftUfoGroupRe \o <<"a">>, leftUfoGroupRe \o <<"a", "-">>,
               rightUfoGroupRe \o <<"a">>, <<"o", "t", "h", "e", "r">>}

\* class names of a feature text: two left classes, a right class, and a
\* class that is no kerning class
FeaNames == {leftFeaClassRe \o <<"a">>, leftFeaClassRe \o <<"b">>,
             rightFeaClassRe \o <<"a">>, <<"@", "c">>}

\* glyph lists without a repeated glyph
GlyphLists == UNION {{s \in [1..n -> Glyphs] : \A i, j \in 1..n : s[i] = s[j] => i = j}
                     : n \in 0..Cardinality(Glyphs)}

\* the lists a class called name is given: any for a kerning class, one for
\* a class the writer ignores; a class of a feature text has a member
ListsFor(name) ==
    IF \E re \in {leftUfoGroupRe, rightUfoGroupRe} : IsClassName(re, name)
    THEN GlyphLists
    ELSE IF \E re \in {leftFeaClassRe, rightFeaClassRe} : IsClassName(re, name)
    THEN GlyphLists \ {<<>>}
    ELSE {<< <<"A">> >>}

\* the dictionaries of at most MaxClasses classes with names among Names
ClassDicts(Names) ==
    UNION {{f \in [N -> GlyphLists] : \A n \in N : f[n] \in ListsFor(n)}
             : N \in {M \in SUBSET Names : Cardinality(M) <= MaxClasses}}

\* a feature text as the (name, contents) definitions the parser reports, in order
FeaTexts ==
    {[i \in 1..Cardinality(DOMAIN f) |-> <<SortedStrs(DOMAIN f)[i], f[SortedStrs(DOMAIN f)[i]]>>]
        : f \in ClassDicts(FeaNames)}

GroupDicts == ClassDicts(GroupNames)

\* the keys of kerning tables: a left group keys the first side only, a
\* right group the second side only
KerningKeys(names) ==
    (Glyphs \cup {g \in names : IsClassName(leftUfoGroupRe, g)})
        \X (Glyphs \cup {g \in names : IsClassName(rightUfoGroupRe, g)})

KeyOrder == SortedPairs(KerningKeys(GroupNames))

\* the adjustment of the entry with key p: write never inspects a value, so
\* every entry has a value of its own, and a value that moves to another
\* rule shows
ValueOf(p) == -5 * (CHOOSE i \in 1..Len(KeyOrder) : KeyOrder[i] = p)

\* kerning tables of at most MaxKern entries over the font's glyphs and groups
KerningDicts(grp) ==
    {[p \in P |-> ValueOf(p)]
        : P \in {Q \in SUBSET KerningKeys(DOMAIN grp) : Cardinality(Q) <= MaxKern}}

NoBuckets == [glyphPair |-> EmptyDict, leftClass |-> EmptyDict,
              rightClass |-> EmptyDict, classPair |-> EmptyDict]

\* the writer as __init__ leaves it (lines 33-48), for every font
Init ==
    /\ featxt \in FeaTexts
    /\ groups \in GroupDicts
    /\ Len(featxt) + Cardinality(DOMAIN groups) <= MaxClasses
    /\ kerning \in KerningDicts(groups)
    /\ leftFeaClasses = EmptyDict
    /\ rightFeaClasses = EmptyDict
    /\ leftUfoClasses = EmptyDict
    /\ rightUfoClasses = EmptyDict
    /\ glyphPairKerning = EmptyDict
    /\ leftClassKerning = EmptyDict
    /\ rightClassKerning = EmptyDict
    /\ classPairKerning = EmptyDict
    /\ output = <<>>
    /\ pc = "collectFeaClasses"
    /\ kerning0 = kerning
    /\ renamed = EmptyDict
    /\ pre = NoBuckets
    /\ derived = EmptyDict

----------------------------------------------------------------------------
(* The writer's attributes as one record, so that each method is a         *)
(* function of the writer it is called on.  ren and der are the history    *)
(* of renamings and of narrowings.                                         *)

Self == [kerning |-> kerning,
         leftFeaClasses |-> leftFeaClasses, rightFeaClasses |-> rightFeaClasses,
         leftUfoClasses |-> leftUfoClasses, rightUfoClasses |-> rightUfoClasses,
         glyphPairKerning |-> glyphPairKerning, leftClassKerning |-> leftClassKerning,
         rightClassKerning |-> rightClassKerning, classPairKerning |-> classPairKerning,
         ren |-> renamed, der |-> derived]

\* the writer __init__ builds on a font with this kerning table (lines 33-48)
NewWriter(kern) ==
    [kerning |-> kern,
     leftFeaClasses |-> EmptyDict, rightFeaClasses |-> EmptyDict,
     leftUfoClasses |-> EmptyDict, rightUfoClasses |-> EmptyDict,
     glyphPairKerning |-> EmptyDict, leftClassKerning |-> EmptyDict,
     rightClassKerning |-> EmptyDict, classPairKerning |-> EmptyDict,
     ren |-> EmptyDict, der |-> EmptyDict]

\* the variables take the attributes of w
Becomes(w) ==
    /\ kerning' = w.kerning
    /\ leftFeaClasses' = w.leftFeaClasses
    /\ rightFeaClasses' = w.rightFeaClasses
    /\ leftUfoClasses' = w.leftUfoClasses
    /\ rightUfoClasses' = w.rightUfoClasses
    /\ glyphPairKerning' = w.glyphPairKerning
    /\ leftClassKerning' = w.leftClassKerning
    /\ rightClassKerning' = w.rightClassKerning
    /\ classPairKerning' = w.classPairKerning
    /\ renamed' = w.ren
    /\ derived' = w.der

\* the four buckets of w
BucketsOf(w) == [glyphPair |-> w.glyphPairKerning, leftClass |-> w.leftClassKerning,
                 rightClass |-> w.rightClassKerning, classPair |-> w.classPairKerning]

Buckets == BucketsOf(Self)

----------------------------------------------------------------------------
(* _collectFeaClasses and classDefinition.                                 *)

classDefinition(w, name, contents) ==
    IF IsClassName(leftFeaClassRe, name)
    THEN [w EXCEPT !.leftFeaClasses = Put(@, name, contents)]
    ELSE IF IsClassName(rightFeaClassRe, name)
    THEN [w EXCEPT !.rightFeaClasses = Put(@, name, contents)]
    ELSE w

RECURSIVE ParseFeatures(_, _, _)
\* parser.parseFeatures(self, self.featxt): one classDefinition call per definition
ParseFeatures(w, defs, i) ==
    IF i > Len(defs) THEN w
    ELSE ParseFeatures(classDefinition(w, defs[i][1], defs[i][2]), defs, i + 1)

FeaClasses(w, defs) == ParseFeatures(w, defs, 1)

CollectFeaClasses ==
    /\ pc = "collectFeaClasses"
    /\ Becomes(FeaClasses(Self, featxt))
    /\ pc' = "collectFeaClassKerning"
    /\ UNCHANGED <<groups, featxt, output, kerning0, pre>>

----------------------------------------------------------------------------
(* _collectFeaClassKerning.                                                *)

RECURSIVE FeaClassPairs(_, _, _, _, _)
\* lines 112-119: the rules with two classes, for one left class
FeaClassPairs(w, leftName, leftKey, rorder, j) ==
    IF j > Len(rorder) THEN w
    ELSE LET rightName == rorder[j]
             rightKey == w.rightFeaClasses[rightName][1]
             pair == <<leftKey, rightKey>>
         IN  IF pair \notin DOMAIN w.kerning
             THEN FeaClassPairs(w, leftName, leftKey, rorder, j + 1)
             ELSE FeaClassPairs(
                     [w EXCEPT !.classPairKerning = Put(@, <<leftName, rightName>>, w.kerning[pair]),
                               !.kerning = Del(@, pair)],
                     leftName, leftKey, rorder, j + 1)

\* FeaLeftGlyph without the kerning.remove of line 124
FeaLeftGlyphKept(w, leftName, leftKey) ==
    LET hits == GetGlyphKern(w.kerning, leftKey, 1)
        keys == {<<leftName, p[2]>> : p \in hits}
    IN  [w EXCEPT !.leftClassKerning =
                      [x \in (DOMAIN w.leftClassKerning) \cup keys |->
                          IF x \in keys THEN w.kerning[<<leftKey, x[2]>>]
                                        ELSE w.leftClassKerning[x]]]

\* lines 122-124: the rules with a left class and a right glyph
FeaLeftGlyph(w, leftName, leftKey) ==
    LET hits == GetGlyphKern(w.kerning, leftKey, 1)
        keys == {<<leftName, p[2]>> : p \in hits}
    IN  [w EXCEPT !.leftClassKerning =
                      [x \in (DOMAIN w.leftClassKerning) \cup keys |->
                          IF x \in keys THEN w.kerning[<<leftKey, x[2]>>]
                                        ELSE w.leftClassKerning[x]],
                  !.kerning = [p \in (DOMAIN w.kerning) \ hits |-> w.kerning[p]]]

RECURSIVE FeaLeftLoop(_, _, _, _)
\* lines 108-124
FeaLeftLoop(w, lorder, rorder, i) ==
    IF i > Len(lorder) THEN w
    ELSE LET leftName == lorder[i]
             leftKey == w.leftFeaClasses[leftName][1]
         IN  FeaLeftLoop(FeaLeftGlyph(FeaClassPairs(w, leftName, leftKey, rorder, 1),
                                      leftName, leftKey),
                         lorder, rorder, i + 1)

\* lines 128-131: the rules with a left glyph and a right class
FeaRightGlyph(w, rightName, rightKey) ==
    LET hits == GetGlyphKern(w.kerning, rightKey, 2)
        keys == {<<p[1], rightName>> : p \in hits}
    IN  [w EXCEPT !.rightClassKerning =
                      [x \in (DOMAIN w.rightClassKerning) \cup keys |->
                          IF x \in keys THEN w.kerning[<<x[1], rightKey>>]
                                        ELSE w.rightClassKerning[x]],
                  !.kerning = [p \in (DOMAIN w.kerning) \ hits |-> w.kerning[p]]]

RECURSIVE FeaRightLoop(_, _, _)
\* lines 127-131
FeaRightLoop(w, rorder, j) ==
    IF j > Len(rorder) THEN w
    ELSE FeaRightLoop(FeaRightGlyph(w, rorder[j], w.rightFeaClasses[rorder[j]][1]),
                      rorder, j + 1)

\* the method, the two dictionaries visited in the orders lorder and rorder
FeaClassKerning(w, lorder, rorder) ==
    FeaRightLoop(FeaLeftLoop(w, lorder, rorder, 1), rorder, 1)

CollectFeaClassKerning ==
    /\ pc = "collectFeaClassKerning"
    /\ \E lorder \in Orders(DOMAIN leftFeaClasses), rorder \in Orders(DOMAIN rightFeaClasses) :
         Becomes(FeaClassKerning(Self, lorder, rorder))
    /\ pc' = "collectUfoClasses"
    /\ UNCHANGED <<groups, featxt, output, kerning0, pre>>

----------------------------------------------------------------------------
(* _collectUfoClasses.                                                     *)

\* the groups whose name matches nameRe
GroupsMatching(grp, nameRe) ==
    [name \in {n \in DOMAIN grp : IsClassName(nameRe, n)} |-> grp[name]]

UfoClasses(w, grp) ==
    [w EXCEPT !.leftUfoClasses = GroupsMatching(grp, leftUfoGroupRe),
              !.rightUfoClasses = GroupsMatching(grp, rightUfoGroupRe)]

CollectUfoClasses ==
    /\ pc = "collectUfoClasses"
    /\ Becomes(UfoClasses(Self, groups))
    /\ pc' = "correctUfoClassNames"
    /\ UNCHANGED <<groups, featxt, output, kerning0, pre>>

----------------------------------------------------------------------------
(* _correctUfoClassNames.                                                  *)

\* lines 289-291
ExistingClassNames(w) ==
    (DOMAIN w.leftFeaClasses) \cup (DOMAIN w.rightFeaClasses)
        \cup (DOMAIN w.leftUfoClasses) \cup (DOMAIN w.rightUfoClasses)

\* lines 151-156 and 164-169: the entries whose side index is name, re-keyed
Rekey(kern, name, newName, index) ==
    LET hits == GetGlyphKern(kern, name, index)
        NewKey(p) == IF index = 1 THEN <<newName, p[2]>> ELSE <<p[1], newName>>
        OldKey(q) == IF index = 1 THEN <<name, q[2]>> ELSE <<q[1], name>>
        keys == {NewKey(p) : p \in hits}
    IN  [q \in ((DOMAIN kern) \cup keys) \ hits |->
            IF q \in keys THEN kern[OldKey(q)] ELSE kern[q]]

RECURSIVE CorrectLeft(_, _, _)
\* lines 145-156
CorrectLeft(w, order, i) ==
    IF i > Len(order) THEN w
    ELSE LET name == order[i]
             newName == MakeFeaClassName(name, ExistingClassNames(w))
         IN  IF name = newName THEN CorrectLeft(w, order, i + 1)
             ELSE CorrectLeft(
                     [w EXCEPT !.leftUfoClasses = Del(Put(@, newName, w.leftUfoClasses[name]), name),
                               !.kerning = Rekey(@, name, newName, 1),
                               !.ren = Put(@, name, newName)],
                     order, i + 1)

RECURSIVE CorrectRight(_, _, _)
\* lines 158-169
CorrectRight(w, order, i) ==
    IF i > Len(order) THEN w
    ELSE LET name == order[i]
             newName == MakeFeaClassName(name, ExistingClassNames(w))
         IN  IF name = newName THEN CorrectRight(w, order, i + 1)
             ELSE CorrectRight(
                     [w EXCEPT !.rightUfoClasses = Del(Put(@, newName, w.rightUfoClasses[name]), name),
                               !.kerning = Rekey(@, name, newName, 2),
                               !.ren = Put(@, name, newName)],
                     order, i + 1)

\* the method, the two dictionaries visited in the orders lorder and rorder
UfoClassNames(w, lorder, rorder) == CorrectRight(CorrectLeft(w, lorder, 1), rorder, 1)

CorrectUfoClassNames ==
    /\ pc = "correctUfoClassNames"
    /\ \E lorder \in Orders(DOMAIN leftUfoClasses), rorder \in Orders(DOMAIN rightUfoClasses) :
         Becomes(UfoClassNames(Self, lorder, rorder))
    /\ pc' = "collectUfoKerning"
    /\ UNCHANGED <<groups, featxt, output, kerning0, pre>>

----------------------------------------------------------------------------
(* _collectUfoKerning.                                                     *)

\* the bucket of a (left, right) entry, lines 180-191
UfoBucket(w, glyphPair) ==
    LET leftIsClass == glyphPair[1] \in DOMAIN w.leftUfoClasses
        rightIsClass == glyphPair[2] \in DOMAIN w.rightUfoClasses
    IN  IF leftIsClass
        THEN (IF rightIsClass THEN "classPair" ELSE "leftClass")
        ELSE IF rightIsClass THEN "rightClass"
        ELSE "glyphPair"

\* bucket with every entry of self.kerning that belongs to it assigned
Partition(w, bucket, which) ==
    LET mine == {p \in DOMAIN w.kerning : UfoBucket(w, p) = which}
    IN  [p \in (DOMAIN bucket) \cup mine |-> IF p \in mine THEN w.kerning[p] ELSE bucket[p]]

UfoKerning(w) ==
    [w EXCEPT !.glyphPairKerning = Partition(w, @, "glyphPair"),
              !.leftClassKerning = Partition(w, @, "leftClass"),
              !.rightClassKerning = Partition(w, @, "rightClass"),
              !.classPairKerning = Partition(w, @, "classPair")]

CollectUfoKerning ==
    /\ pc = "collectUfoKerning"
    /\ Becomes(UfoKerning(Self))
    /\ pre' = BucketsOf(UfoKerning(Self))
    /\ pc' = "removeConflictingKerningRules"
    /\ UNCHANGED <<groups, featxt, output, kerning0>>

----------------------------------------------------------------------------
(* _removeConflictingKerningRules.  The loops run on r = [w, seen]: the    *)
(* writer and the pairs seen (the keys of the dictionary seen, whose       *)
(* values the code never reads).                                           *)

\* lines 201-204: the copy of fea, updated with ufo
MergedClasses(fea, ufo) ==
    [n \in (DOMAIN fea) \cup (DOMAIN ufo) |-> IF n \in DOMAIN ufo THEN ufo[n] ELSE fea[n]]

RECURSIVE KeepUnseen(_, _, _, _, _)
\* lines 213-217 and 226-230: the members of a class, on side index of a
\* pair whose other side is the glyph other, that make a pair not yet seen
KeepUnseen(acc, members, other, index, i) ==
    IF i > Len(members) THEN acc
    ELSE LET pair == IF index = 1 THEN <<members[i], other>> ELSE <<other, members[i]>>
         IN  IF pair \notin acc.seen
             THEN KeepUnseen([kept |-> Append(acc.kept, members[i]),
                              seen |-> acc.seen \cup {pair}],
                             members, other, index, i + 1)
             ELSE KeepUnseen(acc, members, other, index, i + 1)

RECURSIVE ResolveLeft(_, _, _, _)
\* lines 210-220, over the snapshot items of the left-class bucket
ResolveLeft(r, items, order, i) ==
    IF i > Len(order) THEN r
    ELSE LET key == order[i]
             val == items[key]
             lGlyphs == MergedClasses(r.w.leftFeaClasses, r.w.leftUfoClasses)[key[1]]
             acc == KeepUnseen([kept |-> <<>>, seen |-> r.seen], lGlyphs, key[2], 1, 1)
             nkey == <<Liststr(acc.kept), key[2]>>
         IN  IF acc.kept # lGlyphs
             THEN ResolveLeft(
                     [w |-> [r.w EXCEPT !.leftClassKerning = Del(Put(@, nkey, val), key),
                                        !.der = Put(@, <<"leftClass", key>>, nkey)],
                      seen |-> acc.seen],
                     items, order, i + 1)
             ELSE ResolveLeft(
                     [w |-> [r.w EXCEPT !.der = Put(@, <<"leftClass", key>>, key)],
                      seen |-> acc.seen],
                     items, order, i + 1)

RECURSIVE ResolveRight(_, _, _, _)
\* lines 223-233, over the snapshot items of the right-class bucket
ResolveRight(r, items, order, i) ==
    IF i > Len(order) THEN r
    ELSE LET key == order[i]
             val == items[key]
             rGlyphs == MergedClasses(r.w.rightFeaClasses, r.w.rightUfoClasses)[key[2]]
             acc == KeepUnseen([kept |-> <<>>, seen |-> r.seen], rGlyphs, key[1], 2, 1)
             nkey == <<key[1], Liststr(acc.kept)>>
         IN  IF acc.kept # rGlyphs
             THEN ResolveRight(
                     [w |-> [r.w EXCEPT !.rightClassKerning = Del(Put(@, nkey, val), key),
                                        !.der = Put(@, <<"rightClass", key>>, nkey)],
                      seen |-> acc.seen],
                     items, order, i + 1)
             ELSE ResolveRight(
                     [w |-> [r.w EXCEPT !.der = Put(@, <<"rightClass", key>>, key)],
                      seen |-> acc.seen],
                     items, order, i + 1)

\* set(glyphs)
SetOf(glyphs) == {glyphs[i] : i \in 1..Len(glyphs)}

\* NarrowPair that keeps a member only when every pair it makes is unseen
NarrowPairAllUnseen(lClass, rClass, lGlyphs, rGlyphs, seen) ==
    LET nlGlyphs == {a \in SetOf(lGlyphs) : \A b \in SetOf(rGlyphs) : <<a, b>> \notin seen}
        nrGlyphs == {b \in SetOf(rGlyphs) : \A a \in SetOf(lGlyphs) : <<a, b>> \notin seen}
    IN  <<IF nlGlyphs # SetOf(lGlyphs) THEN Liststr(SortedStrs(nlGlyphs)) ELSE lClass,
          IF nrGlyphs # SetOf(rGlyphs) THEN Liststr(SortedStrs(nrGlyphs)) ELSE rClass>>

\* lines 239-251: the key a class-pair rule is left with, given the pairs seen
NarrowPair(lClass, rClass, lGlyphs, rGlyphs, seen) ==
    LET unseen == (SetOf(lGlyphs) \X SetOf(rGlyphs)) \ seen
        nlGlyphs == {p[1] : p \in unseen}
        nrGlyphs == {p[2] : p \in unseen}
    IN  <<IF nlGlyphs # SetOf(lGlyphs) THEN Liststr(SortedStrs(nlGlyphs)) ELSE lClass,
          IF nrGlyphs # SetOf(rGlyphs) THEN Liststr(SortedStrs(nrGlyphs)) ELSE rClass>>

RECURSIVE ResolvePairs(_, _, _, _)
\* lines 236-254, over the snapshot items of the class-pair bucket
ResolvePairs(r, items, order, i) ==
    IF i > Len(order) THEN r
    ELSE LET key == order[i]
             val == items[key]
             lGlyphs == MergedClasses(r.w.leftFeaClasses, r.w.leftUfoClasses)[key[1]]
             rGlyphs == MergedClasses(r.w.rightFeaClasses, r.w.rightUfoClasses)[key[2]]
             nkey == NarrowPair(key[1], key[2], lGlyphs, rGlyphs, r.seen)
             seen == r.seen \cup (SetOf(lGlyphs) \X SetOf(rGlyphs))
         IN  IF nkey # key
             THEN ResolvePairs(
                     [w |-> [r.w EXCEPT !.classPairKerning = Del(Put(@, nkey, val), key),
                                        !.der = Put(@, <<"classPair", key>>, nkey)],
                      seen |-> seen],
                     items, order, i + 1)
             ELSE ResolvePairs(
                     [w |-> [r.w EXCEPT !.der = Put(@, <<"classPair", key>>, key)],
                      seen |-> seen],
                     items, order, i + 1)

\* the method, the three buckets visited in the orders lo, ro and po
NoConflicts(w, lo, ro, po) ==
    ResolvePairs(
        ResolveRight(
            ResolveLeft([w |-> w, seen |-> DOMAIN w.glyphPairKerning],
                        w.leftClassKerning, lo, 1),
            w.rightClassKerning, ro, 1),
        w.classPairKerning, po, 1).w

RemoveConflictingKerningRules ==
    /\ pc = "removeConflictingKerningRules"
    /\ \E lo \in Orders(DOMAIN leftClassKerning), ro \in Orders(DOMAIN rightClassKerning),
          po \in Orders(DOMAIN classPairKerning) :
         Becomes(NoConflicts(Self, lo, ro, po))
    /\ pc' = "write"
    /\ UNCHANGED <<groups, featxt, output, kerning0, pre>>

----------------------------------------------------------------------------
(* The text: _addGlyphClasses, _addKerning and the end of write.           *)

linesep == <<"\n">>

\* AddGlyphClasses for the classes some rule of the buckets names only
AddGlyphClassesInUse(w) ==
    LET ufoClasses == MergedClasses(w.leftUfoClasses, w.rightUfoClasses)
        used == {n \in DOMAIN ufoClasses :
                    \E b \in {w.glyphPairKerning, w.leftClassKerning,
                               w.rightClassKerning, w.classPairKerning} :
                        \E k \in DOMAIN b : k[1] = n \/ k[2] = n}
        keys == SortedStrs(used)
    IN  [i \in 1..Len(keys) |->
            keys[i] \o <<" ", "=", " ", "[">> \o Join(ufoClasses[keys[i]], <<" ">>)
                \o <<"]", ";">>]

\* lines 259-262, as the lines appended
AddGlyphClasses(w) ==
    LET ufoClasses == MergedClasses(w.leftUfoClasses, w.rightUfoClasses)
        keys == SortedStrs(DOMAIN ufoClasses)
    IN  [i \in 1..Len(keys) |->
            keys[i] \o <<" ", "=", " ", "[">> \o Join(ufoClasses[keys[i]], <<" ">>)
                \o <<"]", ";">>]

\* lines 267-269, as the lines appended
AddKerning(kern, enum) ==
    LET keys == SortedPairs(DOMAIN kern)
    IN  [i \in 1..Len(keys) |->
            <<" ", " ", " ", " ">> \o (IF enum THEN <<"e", "n", "u", "m", " ">> ELSE <<>>)
                \o <<"p", "o", "s", " ">> \o keys[i][1] \o <<" ">> \o keys[i][2] \o <<" ">>
                \o IntStr(kern[keys[i]]) \o <<";">>]

Subtable == <<" ", " ", " ", " ", "s", "u", "b", "t", "a", "b", "l", "e", ";">>
FeatureOpen == <<"f", "e", "a", "t", "u", "r", "e", " ", "k", "e", "r", "n", " ", "{">>
FeatureClose == <<"}", " ", "k", "e", "r", "n", ";">>

\* lines 75-92: the lines of a feature that has rules
FeatureLines(w) ==
    AddGlyphClasses(w) \o << <<>> >> \o <<FeatureOpen>>
        \o AddKerning(w.glyphPairKerning, FALSE)
        \o (IF w.leftClassKerning # EmptyDict
            THEN <<Subtable>> \o AddKerning(w.leftClassKerning, TRUE) ELSE <<>>)
        \o (IF w.rightClassKerning # EmptyDict
            THEN <<Subtable>> \o AddKerning(w.rightClassKerning, TRUE) ELSE <<>>)
        \o (IF w.classPairKerning # EmptyDict
            THEN <<Subtable>> \o AddKerning(w.classPairKerning, FALSE) ELSE <<>>)
        \o <<FeatureClose>>

\* write without the test of lines 70-73
WriteTextUnguarded(w) == Join(FeatureLines(w), linesep)

\* lines 70-94: what write returns
WriteText(w) ==
    IF /\ w.glyphPairKerning = EmptyDict
       /\ w.leftClassKerning = EmptyDict
       /\ w.rightClassKerning = EmptyDict
       /\ w.classPairKerning = EmptyDict
    THEN <<>>
    ELSE Join(FeatureLines(w), linesep)

Write ==
    /\ pc = "write"
    /\ output' = WriteText(Self)
    /\ pc' = "done"
    /\ UNCHANGED <<kerning, groups, featxt, leftFeaClasses, rightFeaClasses, leftUfoClasses,
                   rightUfoClasses, glyphPairKerning, leftClassKerning, rightClassKerning,
                   classPairKerning, kerning0, renamed, pre, derived>>

Next ==
    \/ CollectFeaClasses
    \/ CollectFeaClassKerning
    \/ CollectUfoClasses
    \/ CorrectUfoClassNames
    \/ CollectUfoKerning
    \/ RemoveConflictingKerningRules
    \/ Write

Spec == Init /\ [][Next]_vars

----------------------------------------------------------------------------
(* Vocabulary of the properties.                                           *)

BucketNames == {"glyphPair", "leftClass", "rightClass", "classPair"}

\* the rules of the four buckets, as <<bucket, key>>
RulesOf(b) == {<<n, k>> : n \in BucketNames, k \in UNION {DOMAIN b[m] : m \in BucketNames}}
                 \cap UNION {{<<n, k>> : k \in DOMAIN b[n]} : n \in BucketNames}

\* conflict resolution has run
Resolved == pc \in {"write", "done"}

\* the partitioner has run and conflict resolution has not
Partitioned == pc = "removeConflictingKerningRules"

\* the glyphs an operand of a rule stands for: the members of a class, the
\* glyphs of an explicit list, or the glyph itself
Expand(operand, classes) ==
    IF operand \in DOMAIN classes THEN SetOf(classes[operand])
    ELSE IF operand # <<>> /\ operand[1] = "["
    THEN SetOf(CHOOSE m \in GlyphLists : Liststr(m) = operand)
    ELSE {operand}

\* the rule with this key covers the glyph pair (a, b)
Covers(key, a, b) ==
    /\ a \in Expand(key[1], MergedClasses(leftFeaClasses, leftUfoClasses))
    /\ b \in Expand(key[2], MergedClasses(rightFeaClasses, rightUfoClasses))

\* the lines of a text: what stands between its line separators
Lines(text) ==
    LET breaks == {i \in 1..Len(text) : text[i] = "\n"}
        starts == {1} \cup {i + 1 : i \in breaks}
        Start(k) == CHOOSE st \in starts : Cardinality({i \in breaks : i < st}) = k - 1
        End(k) == IF k > Cardinality(breaks) THEN Len(text)
                  ELSE (CHOOSE i \in breaks : Cardinality({j \in breaks : j < i}) = k - 1) - 1
    IN  IF text = <<>> THEN <<>>
        ELSE [k \in 1..(Cardinality(breaks) + 1) |-> SubSeq(text, Start(k), End(k))]

Contains(s, sub) == \E i \in 1..(Len(s) - Len(sub) + 1) : SubSeq(s, i, i + Len(sub) - 1) = sub

\* a rule line of the feature block
IsRuleLine(line) ==
    \/ StartsWith(line, <<" ", " ", " ", " ", "p", "o", "s", " ">>)
    \/ StartsWith(line, <<" ", " ", " ", " ", "e", "n", "u", "m", " ", "p", "o", "s", " ">>)

\* the rule lines between "feature kern {" and "} kern;"
BlockRuleLines(text) ==
    LET ls == Lines(text)
    IN  {i \in 1..Len(ls) :
            /\ IsRuleLine(ls[i])
            /\ \E j \in 1..(i - 1) : ls[j] = FeatureOpen
            /\ \E j \in (i + 1)..Len(ls) : ls[j] = FeatureClose}

\* the class names the text declares: the lines "name = [...];"
DeclaredNames(text) ==
    LET ls == Lines(text)
        Marks(line) == {j \in 1..Len(line) :
                           /\ j + 3 <= Len(line)
                           /\ SubSeq(line, j, j + 3) = <<" ", "=", " ", "[">>}
    IN  UNION {{SubSeq(ls[i], 1, j - 1) : j \in Marks(ls[i])} : i \in 1..Len(ls)}

\* name is an operand of a rule in the buckets
InUse(name) == \E r \in RulesOf(Buckets) : r[2][1] = name \/ r[2][2] = name

\* '@' followed only by letters, digits, period, underscore
IsLegalClassName(name) ==
    /\ Len(name) >= 1
    /\ name[1] = "@"
    /\ \A i \in 2..Len(name) : name[i] \in LegalChars

\* write in which every dictionary is visited in sorted order
SortedRun(kern, grp, defs) ==
    LET w1 == FeaClasses(NewWriter(kern), defs)
        w2 == FeaClassKerning(w1, SortedStrs(DOMAIN w1.leftFeaClasses),
                              SortedStrs(DOMAIN w1.rightFeaClasses))
        w3 == UfoClasses(w2, grp)
        w4 == UfoClassNames(w3, SortedStrs(DOMAIN w3.leftUfoClasses),
                            SortedStrs(DOMAIN w3.rightUfoClasses))
        w5 == UfoKerning(w4)
    IN  NoConflicts(w5, SortedPairs(DOMAIN w5.leftClassKerning),
                    SortedPairs(DOMAIN w5.rightClassKerning),
                    SortedPairs(DOMAIN w5.classPairKerning))

----------------------------------------------------------------------------
(* C1.  After conflict resolution at most one rule of the four buckets     *)
(* covers any concrete glyph pair (a, b).                                  *)

C1_NoDuplicateCoverage ==
    Resolved =>
        \A a \in Glyphs, b \in Glyphs :
            Cardinality({r \in RulesOf(Buckets) : Covers(r[2], a, b)}) <= 1

(* C2.  Conflict resolution changes no value: every rule that entered it   *)
(* is present afterwards, under the key it was narrowed to, with the value *)
(* it had; a glyph-glyph rule keeps its key and value.                     *)

C2_ValuesPreserved ==
    Resolved =>
        /\ glyphPairKerning = pre.glyphPair
        /\ \A r \in RulesOf(pre) :
              r[1] # "glyphPair" =>
                  /\ r \in DOMAIN derived
                  /\ derived[r] \in DOMAIN Buckets[r[1]]
                  /\ Buckets[r[1]][derived[r]] = pre[r[1]][r[2]]

(* C3.  Determinism: whatever order the dictionaries are visited in, write *)
(* ends with the buckets and the text of the run that visits them sorted.  *)

C3_OrderIndependent ==
    pc = "done" =>
        /\ Buckets = BucketsOf(SortedRun(kerning0, groups, featxt))
        /\ output = WriteText(SortedRun(kerning0, groups, featxt))

(* C4.  write returns the empty string when the four buckets are empty,    *)
(* and so when the kerning table is empty; a text it returns otherwise has *)
(* a kern feature block with at least one rule line.                       *)

C4_EmptyOrRules ==
    pc = "done" =>
        /\ (\A n \in BucketNames : Buckets[n] = EmptyDict) => output = <<>>
        /\ kerning0 = EmptyDict => output = <<>>
        /\ output # <<>> => BlockRuleLines(output) # {}

C4_Witness ==
    /\ pc = "done"
    /\ kerning0 = EmptyDict
    /\ DOMAIN leftUfoClasses # {}
    /\ DOMAIN leftFeaClasses # {}
    /\ output = <<>>

(* C5.  Renaming safety: once the partitioner has run, every entry of the  *)
(* input table keyed on a renamed group is a rule keyed on the new         *)
(* identifier, with its value; no rule is keyed on the old name; the class *)
(* is kept, and declared, under the new identifier with the same members.  *)

\* the name a side of an input entry has after _correctUfoClassNames
Ren(name) == IF name \in DOMAIN renamed THEN renamed[name] ELSE name

C5_RenamingSafe ==
    \A old \in DOMAIN renamed :
        LET ufo == MergedClasses(leftUfoClasses, rightUfoClasses)
        IN  /\ (Partitioned \/ Resolved) =>
                /\ old \notin DOMAIN ufo
                /\ renamed[old] \in DOMAIN ufo
                /\ ufo[renamed[old]] = groups[old]
            /\ Partitioned =>
                /\ \A p \in DOMAIN kerning0 :
                      (p[1] = old \/ p[2] = old) =>
                          \E r \in RulesOf(Buckets) :
                              /\ r[2] = <<Ren(p[1]), Ren(p[2])>>
                              /\ Buckets[r[1]][r[2]] = kerning0[p]
                /\ \A r \in RulesOf(Buckets) : r[2][1] # old /\ r[2][2] # old
            /\ (pc = "done" /\ output # <<>>) =>
                /\ renamed[old] \in DeclaredNames(output)
                /\ old \notin DeclaredNames(output)

(* C6.  After the class-registry stage every group-declared class name in  *)
(* use downstream, as a key of leftUfoClasses or rightUfoClasses or as an  *)
(* operand of a rule, is a legal feature identifier, unique among all      *)
(* feature-declared and group-declared names; a collision takes the first  *)
(* free numeric suffix from 1.                                             *)

\* the kerning groups of the font
KerningGroups ==
    {n \in DOMAIN groups : IsClassName(leftUfoGroupRe, n) \/ IsClassName(rightUfoGroupRe, n)}

\* every class name the writer knows
AllClassNames ==
    (DOMAIN leftFeaClasses) \cup (DOMAIN rightFeaClasses)
        \cup (DOMAIN leftUfoClasses) \cup (DOMAIN rightUfoClasses)

\* name is "@" and the legal characters of old, or that with the first free suffix
IsFirstFree(name, old) ==
    LET base == <<"@">> \o StripIllegal(old)
    IN  \/ name = base
        \/ \E k \in 1..Cardinality(KerningGroups) :
              /\ name = base \o <<"_">> \o IntStr(k)
              /\ base \in AllClassNames
              /\ \A j \in 1..(k - 1) : (base \o <<"_">> \o IntStr(j)) \in AllClassNames

C6_LegalUniqueNames ==
    pc \in {"collectUfoKerning", "removeConflictingKerningRules", "write", "done"} =>
        /\ \A n \in (DOMAIN leftUfoClasses) \cup (DOMAIN rightUfoClasses) : IsLegalClassName(n)
        /\ Cardinality(AllClassNames) =
              Cardinality(DOMAIN leftFeaClasses) + Cardinality(DOMAIN rightFeaClasses)
                  + Cardinality(KerningGroups)
        /\ \A old \in KerningGroups : old \in DOMAIN renamed /\ IsFirstFree(renamed[old], old)
        /\ \A r \in RulesOf(Buckets) : \A i \in 1..2 :
              r[2][i] \in KerningGroups \cup (DOMAIN leftUfoClasses) \cup (DOMAIN rightUfoClasses)
                  => IsLegalClassName(r[2][i])

(* C7.  write leaves the font's kerning table as it was when write was     *)
(* called (no action of the model assigns groups).                         *)

C7_FontUntouched == pc = "done" => kerning = kerning0

(* C8.  After conflict resolution no bucket holds a rule with an empty     *)
(* explicit member list as an operand, and no rule line has one.           *)

EmptyList == Liststr(<<>>)

C8_NoEmptyListRule ==
    /\ Resolved => \A r \in RulesOf(Buckets) : r[2][1] # EmptyList /\ r[2][2] # EmptyList
    /\ pc = "done" =>
          LET ls == Lines(output)
          IN  \A i \in 1..Len(ls) : IsRuleLine(ls[i]) => ~Contains(ls[i], EmptyList)

(* C9, as stated.  A class declaration line is written only for a          *)
(* group-declared class that is an operand of a rule in the final buckets. *)

C9_DeclaredOnlyInUse ==
    pc = "done" => \A n \in DeclaredNames(output) : InUse(n)

(* C9, amended.  A text write returns declares every left and right        *)
(* kerning group under its corrected name with its members, in use or not, *)
(* and declares nothing else.                                              *)

C9_DeclaresEveryGroup ==
    (pc = "done" /\ output # <<>>) =>
        LET ufo == MergedClasses(leftUfoClasses, rightUfoClasses)
            ls == Lines(output)
        IN  /\ DeclaredNames(output) = DOMAIN ufo
            /\ \A n \in DOMAIN ufo :
                  \E i \in 1..Len(ls) :
                      ls[i] =
                          n \o <<" ", "=", " ", "[">> \o Join(ufo[n], <<" ">>) \o <<"]", ";">>

C9_Witness ==
    /\ pc = "done"
    /\ \E n \in DeclaredNames(output) :
          /\ ~InUse(n)
          /\ \E p \in DOMAIN kerning0 : Ren(p[1]) = n

(* C10.  Once the key-glyph resolver and the partitioner have run, the     *)
(* rules of the four buckets correspond one-to-one to the entries of the   *)
(* input table, and an entry left to the partitioner is in the bucket its  *)
(* two sides select.                                                       *)

\* key can record the input entry p: each side is the side of p, as it was
\* or as its group was renamed, or a feature-declared class whose key glyph
\* it is
Records(key, p) ==
    /\ \/ key[1] \in {p[1], Ren(p[1])}
       \/ key[1] \in DOMAIN leftFeaClasses /\ leftFeaClasses[key[1]][1] = p[1]
    /\ \/ key[2] \in {p[2], Ren(p[2])}
       \/ key[2] \in DOMAIN rightFeaClasses /\ rightFeaClasses[key[2]][1] = p[2]

C10_OneBucketEach ==
    Partitioned =>
        /\ \A p \in DOMAIN kerning0 :
              \E r \in RulesOf(Buckets) :
                  Records(r[2], p) /\ Buckets[r[1]][r[2]] = kerning0[p]
        /\ \A r \in RulesOf(Buckets) :
              \E p \in DOMAIN kerning0 :
                  Records(r[2], p) /\ Buckets[r[1]][r[2]] = kerning0[p]
        /\ Cardinality(RulesOf(Buckets)) = Cardinality(DOMAIN kerning0)
        /\ \A p \in DOMAIN kerning :
              /\ p \in DOMAIN Buckets[
                    IF p[1] \in DOMAIN leftUfoClasses
                    THEN (IF p[2] \in DOMAIN rightUfoClasses THEN "classPair" ELSE "leftClass")
                    ELSE (IF p[2] \in DOMAIN rightUfoClasses THEN "rightClass" ELSE "glyphPair")]
              /\ Cardinality({n \in BucketNames : p \in DOMAIN Buckets[n]}) = 1

C10_Witness ==
    /\ Partitioned
    /\ Cardinality(DOMAIN kerning0) = 3
    /\ \E k \in DOMAIN leftClassKerning : k[1] \in DOMAIN leftFeaClasses
    /\ \E k \in DOMAIN rightClassKerning : k[2] \in DOMAIN rightUfoClasses
    /\ glyphPairKerning # EmptyDict

----------------------------------------------------------------------------
(* C11.  The key-glyph resolver records glyph-glyph entries only: every    *)
(* key of the left-class bucket has a plain glyph, never a group or class  *)
(* name, as its right operand, and every key of the right-class bucket has *)
(* a plain glyph as its left operand.                                      *)

\* a glyph name, as opposed to the name of a group or of a class
IsPlainGlyph(operand) == operand \in Glyphs

C11_GlyphOperands ==
    /\ \A key \in DOMAIN leftClassKerning : IsPlainGlyph(key[2])
    /\ \A key \in DOMAIN rightClassKerning : IsPlainGlyph(key[1])

----------------------------------------------------------------------------
(* C12.  Conflict resolution loses no coverage and adds none: the glyph    *)
(* pairs covered by at least one rule of the four buckets are the same     *)
(* before and after _removeConflictingKerningRules, and the glyph-pair     *)
(* bucket is left as it was.                                               *)

\* the glyph pairs that at least one rule of the buckets b covers
Coverage(b) ==
    UNION {Expand(r[2][1], MergedClasses(leftFeaClasses, leftUfoClasses))
               \X Expand(r[2][2], MergedClasses(rightFeaClasses, rightUfoClasses))
             : r \in RulesOf(b)}

C12_CoverageKept ==
    Resolved =>
        /\ Coverage(Buckets) = Coverage(pre)
        /\ Buckets.glyphPair = pre.glyphPair

\* a left-class rule and a class-pair rule have both been narrowed
C12_Witness ==
    /\ Resolved
    /\ Buckets.leftClass # pre.leftClass
    /\ Buckets.classPair # pre.classPair
    /\ \E r \in RulesOf(Buckets) : r[1] = "classPair" /\ r[2] \notin DOMAIN pre.classPair
                                      /\ Expand(r[2][1], EmptyDict) # {}
                                      /\ Expand(r[2][2], EmptyDict) # {}

====
